---- MODULE Spec2Model ----
(***************************************************************************)
(* Model of src/bot.py: a Flask webhook that relays ShotGrid change events *)
(* to Slack users, and the Throttler class defined next to it.             *)
(*                                                                         *)
(* Python values are modelled as follows.  Ids, names, emails and message  *)
(* bodies are strings; Python's None is the string "None" (which is also   *)
(* what an f-string renders for it).  A ShotGrid table is a function from  *)
(* id to record; find_one returning None is the id not being in the        *)
(* table's domain.  A dict is a sequence of [key, value] entries kept in   *)
(* insertion order.  Time is counted in whole seconds.                     *)
(***************************************************************************)
EXTENDS Integers, Sequences, FiniteSets, TLC

VARIABLES
    now,         \* time.time(), in seconds since the Throttler was built
    calls,       \* Throttler.calls
    last_reset,  \* Throttler.last_reset
    ret,         \* what the last throttle() call returned ("none" before any)
    admitted,    \* history: the times of the throttle() calls that returned True
    returned,    \* history: what the throttle() calls since the last window reset returned, in order
    lock,        \* Throttler.lock: the worker that holds it, or 0
    pc,          \* per worker: where it is in throttle()
    current_time, \* per worker: its local current_time (0 outside throttle())
    seen_calls,  \* per worker: the value of self.calls it read for "self.calls += 1" (0 outside)
    sg,          \* the ShotGrid tables behind shotgrid_connection
    slack,       \* the Slack workspace behind client: per email, how lookup and post behave
    event,       \* request.json["data"] of the last request
    response,    \* [status, body] of the last response (status 0 before any request)
    sent,        \* the chat_postMessage calls of the last request, in order
    lookups,     \* the users_lookupByEmail calls of the last request, in order
    queries,     \* number of find/find_one calls of the last request
    resolved     \* what the resolver call of the last request returned, and for which entity

workerVars == <<lock, pc, current_time, seen_calls>>
throttlerVars == <<now, calls, last_reset, ret, admitted, returned, workerVars>>
webhookVars == <<sg, slack, event, response, sent, lookups, queries, resolved>>
vars == <<throttlerVars, webhookVars>>

None == "None"

-----------------------------------------------------------------------------
(* Throttler                                                               *)

max_calls == 5
period == 10

\* The clock is stopped at MaxTime.
MaxTime == 12

\* A throttle() call is made only while fewer than MaxRejected calls have
\* been refused since the last window reset.
MaxRejected == 2

\* Throttler.throttle, the body under "with self.lock": the values of
\* (calls, last_reset) after the window check.
WindowExpired(t, lr) == t - lr > period

CallsAfterCheck(t) == IF WindowExpired(t, last_reset) THEN 0 ELSE calls
ResetAfterCheck(t) == IF WindowExpired(t, last_reset) THEN t ELSE last_reset
ReturnedAfterCheck(t) == IF WindowExpired(t, last_reset) THEN <<>> ELSE returned

\* "if self.calls < self.max_calls" with <= for <.
AdmitsOneMore(c) == c <= max_calls

\* "if self.calls < self.max_calls"
Admits(c) == c < max_calls

\* One throttle() call of a single caller, from "with self.lock" to return.
Throttle ==
    /\ Len(ReturnedAfterCheck(now)) < max_calls + MaxRejected
    /\ last_reset' = ResetAfterCheck(now)
    /\ IF Admits(CallsAfterCheck(now))
         THEN /\ calls' = CallsAfterCheck(now) + 1
              /\ ret' = "True"
              /\ admitted' = Append(admitted, now)
         ELSE /\ calls' = CallsAfterCheck(now)
              /\ ret' = "False"
              /\ admitted' = admitted
    /\ returned' = Append(ReturnedAfterCheck(now), ret')
    /\ UNCHANGED <<now, workerVars, webhookVars>>

\* time.time() moves on between two calls.
Tick ==
    /\ now < MaxTime
    /\ now' = now + 1
    /\ UNCHANGED <<calls, last_reset, ret, admitted, returned, workerVars, webhookVars>>

\* Workers (threads of the WSGI server) that call throttle() on the one
\* module-level Throttler.
NumWorkers == 2
Workers == 1..NumWorkers

\* "with self.lock" entered without waiting for the lock.
LockIgnored == TRUE

\* threading.Lock: acquire succeeds only while no worker holds the lock.
LockFree == lock = 0

\* "with self.lock:" on entry
Acquire(w) ==
    /\ pc[w] = "idle"
    /\ Len(returned) < max_calls + MaxRejected
    /\ LockFree
    /\ lock' = w
    /\ pc' = [pc EXCEPT ![w] = "time"]
    /\ UNCHANGED <<now, calls, last_reset, ret, admitted, returned, current_time, seen_calls, webhookVars>>

\* "current_time = time.time()"
ReadTime(w) ==
    /\ pc[w] = "time"
    /\ current_time' = [current_time EXCEPT ![w] = now]
    /\ pc' = [pc EXCEPT ![w] = "check"]
    /\ UNCHANGED <<now, calls, last_reset, ret, admitted, returned, lock, seen_calls, webhookVars>>

\* "if current_time - self.last_reset > self.period: self.calls = 0; self.last_reset = current_time"
CheckWindow(w) ==
    /\ pc[w] = "check"
    /\ IF WindowExpired(current_time[w], last_reset)
         THEN calls' = 0 /\ last_reset' = current_time[w] /\ returned' = <<>>
         ELSE UNCHANGED <<calls, last_reset, returned>>
    /\ pc' = [pc EXCEPT ![w] = "test"]
    /\ UNCHANGED <<now, ret, admitted, lock, current_time, seen_calls, webhookVars>>

\* "if self.calls < self.max_calls:" and the read of self.calls in "self.calls += 1"
TestCalls(w) ==
    /\ pc[w] = "test"
    /\ seen_calls' = [seen_calls EXCEPT ![w] = calls]
    /\ pc' = [pc EXCEPT ![w] = IF Admits(calls) THEN "increment" ELSE "refuse"]
    /\ UNCHANGED <<now, calls, last_reset, ret, admitted, returned, lock, current_time, webhookVars>>

\* the write of "self.calls += 1", and "return True"
Increment(w) ==
    /\ pc[w] = "increment"
    /\ calls' = seen_calls[w] + 1
    /\ ret' = "True"
    /\ returned' = Append(returned, "True")
    /\ pc' = [pc EXCEPT ![w] = "release"]
    /\ UNCHANGED <<now, last_reset, admitted, lock, current_time, seen_calls, webhookVars>>

\* "else: return False"
Refuse(w) ==
    /\ pc[w] = "refuse"
    /\ ret' = "False"
    /\ returned' = Append(returned, "False")
    /\ pc' = [pc EXCEPT ![w] = "release"]
    /\ UNCHANGED <<now, calls, last_reset, admitted, lock, current_time, seen_calls, webhookVars>>

\* leaving "with self.lock:"; the locals of the call are gone
Release(w) ==
    /\ pc[w] = "release"
    /\ lock' = IF lock = w THEN 0 ELSE lock
    /\ pc' = [pc EXCEPT ![w] = "idle"]
    /\ current_time' = [current_time EXCEPT ![w] = 0]
    /\ seen_calls' = [seen_calls EXCEPT ![w] = 0]
    /\ UNCHANGED <<now, calls, last_reset, ret, admitted, returned, webhookVars>>

InitThrottler ==
    /\ now = 0
    /\ calls = 0
    /\ last_reset = 0
    /\ ret = "none"
    /\ admitted = <<>>
    /\ returned = <<>>
    /\ lock = 0
    /\ pc = [w \in Workers |-> "idle"]
    /\ current_time = [w \in Workers |-> 0]
    /\ seen_calls = [w \in Workers |-> 0]

-----------------------------------------------------------------------------
(* Slack client                                                            *)

\* What runs of one request leave behind: the Slack calls made, the number
\* of ShotGrid queries made, and whether an exception is propagating.
\* The request has called none of the get_assigned_users_from_* functions.
NoResolution == [type |-> None, id |-> None, result |-> [found |-> FALSE]]

\* The value one of the get_assigned_users_from_* functions returned for an entity.
Resolution(type, id, result) == [type |-> type, id |-> id, result |-> result]

NoEffects == [sent |-> <<>>, lookups |-> <<>>, queries |-> 0, raised |-> FALSE, resolved |-> NoResolution]

\* dict.get(key, default)
Get(rec, key, default) == IF key \in DOMAIN rec THEN rec[key] ELSE default

\* bool(x) for the strings of the model
Truthy(x) == x # None /\ x # ""

\* client.users_lookupByEmail: the user's id, or the exception it raises.
\* An address the workspace does not know is a users_not_found error.
users_lookupByEmail(email) == Get(slack.users, email, "SlackApiError")

\* find_slack_user_by_email without its except clause: SlackApiError
\* propagates like any other exception.
find_slack_user_uncaught(email, st) ==
    LET r == users_lookupByEmail(email)
        st1 == [st EXCEPT !.lookups = Append(@, email)]
    IN  CASE r \in {"Exception", "SlackApiError"} -> [value |-> None, st |-> [st1 EXCEPT !.raised = TRUE]]
          [] OTHER -> [value |-> r, st |-> st1]

\* find_slack_user_by_email: SlackApiError is caught and gives None; any
\* other exception propagates.
find_slack_user_by_email(email, st) ==
    LET r == users_lookupByEmail(email)
        st1 == [st EXCEPT !.lookups = Append(@, email)]
    IN  CASE r = "Exception" -> [value |-> None, st |-> [st1 EXCEPT !.raised = TRUE]]
          [] r = "SlackApiError" -> [value |-> None, st |-> st1]
          [] OTHER -> [value |-> r, st |-> st1]

\* send_slack_message: one chat_postMessage call; SlackApiError is caught
\* and logged, any other exception propagates.
send_slack_message(slack_user_id, text, st) ==
    LET outcome == slack.post[slack_user_id]
    IN  [st EXCEPT !.sent = Append(@, [channel |-> slack_user_id, text |-> text, outcome |-> outcome]),
                   !.raised = (outcome = "Exception")]

ContextPrefix(project_name, sequence_name, shot_name, step) ==
    "In " \o project_name \o "|" \o sequence_name \o "|" \o shot_name \o "|" \o step \o "\n"

\* send_message_to_assigned_users, the inner loop "for email in users"
RECURSIVE SendToUsers(_, _, _, _, _, _, _, _)
SendToUsers(step, users, i, shot_name, sequence_name, project_name, message_content, st) ==
    IF st.raised \/ i > Len(users) THEN st
    ELSE LET found == find_slack_user_by_email(users[i], st)
             st1 == IF ~found.st.raised /\ Truthy(found.value)
                      THEN send_slack_message(found.value,
                              ContextPrefix(project_name, sequence_name, shot_name, step) \o message_content,
                              found.st)
                      ELSE found.st
         IN  SendToUsers(step, users, i + 1, shot_name, sequence_name, project_name, message_content, st1)

\* send_message_to_assigned_users, the outer loop over the dict's items
RECURSIVE send_message_to_assigned_users(_, _, _, _, _, _, _)
send_message_to_assigned_users(assigned_users_by_step, k, shot_name, sequence_name, project_name, message_content, st) ==
    IF st.raised \/ k > Len(assigned_users_by_step) THEN st
    ELSE send_message_to_assigned_users(assigned_users_by_step, k + 1, shot_name, sequence_name, project_name,
            message_content,
            SendToUsers(assigned_users_by_step[k].key, assigned_users_by_step[k].value, 1,
                        shot_name, sequence_name, project_name, message_content, st))

-----------------------------------------------------------------------------
(* ShotGrid queries                                                        *)

\* assigned_users[pipeline_step].append(user_email), creating the list first
DictAppend(d, key, v) ==
    IF \E i \in DOMAIN d : d[i].key = key
      THEN [i \in DOMAIN d |-> IF d[i].key = key THEN [d[i] EXCEPT !.value = Append(@, v)] ELSE d[i]]
      ELSE Append(d, [key |-> key, value |-> <<v>>])

\* "for assignee in task_assignees": one HumanUser query per assignee
RECURSIVE AddAssignees(_, _, _, _)
AddAssignees(pipeline_step, task_assignees, j, acc) ==
    IF j > Len(task_assignees) THEN acc
    ELSE LET id == task_assignees[j]
             acc1 == [acc EXCEPT !.queries = @ + 1]
         IN  AddAssignees(pipeline_step, task_assignees, j + 1,
                IF id \in DOMAIN sg.HumanUser
                  THEN [acc1 EXCEPT !.assigned_users = DictAppend(@, pipeline_step, sg.HumanUser[id].email)]
                  ELSE acc1)

\* "for task in tasks"
RECURSIVE AddTasks(_, _, _)
AddTasks(tasks, i, acc) ==
    IF i > Len(tasks) THEN acc
    ELSE AddTasks(tasks, i + 1,
            AddAssignees(Get(tasks[i], "step", "Unknown Step"), Get(tasks[i], "task_assignees", <<>>), 1, acc))

\* shotgrid_connection.find("Task", [["entity", "is", {"type": type, "id": id}]], ...)
TasksOf(type, id) == SelectSeq(sg.Task, LAMBDA t : t.entity.type = type /\ t.entity.id = id)

\* get_assigned_users_from_tasks with assigned_users_by_step kept between
\* calls instead of being a fresh dict (line 96) in each call.
get_assigned_users_from_tasks_keeping_dict(shot_id) ==
    IF shot_id \notin DOMAIN sg.Shot
      THEN [found |-> FALSE, assigned_users |-> <<>>, shot_name |-> None, sequence_name |-> None,
            project_name |-> None, queries |-> 1]
      ELSE LET shot_details == sg.Shot[shot_id]
               kept == IF resolved.type = "Shot" THEN resolved.result.assigned_users ELSE <<>>
               acc == AddTasks(TasksOf("Shot", shot_id), 1, [assigned_users |-> kept, queries |-> 2])
           IN  [found |-> TRUE, assigned_users |-> acc.assigned_users,
                shot_name |-> Get(shot_details, "code", "Unknown Shot"),
                sequence_name |-> Get(shot_details, "sequence", "Unknown Sequence"),
                project_name |-> Get(shot_details, "project", "Unknown Project"),
                queries |-> acc.queries]

\* get_assigned_users_from_tasks.  found = FALSE is the (None, None, None, None) result.
get_assigned_users_from_tasks(shot_id) ==
    IF shot_id \notin DOMAIN sg.Shot
      THEN [found |-> FALSE, assigned_users |-> <<>>, shot_name |-> None, sequence_name |-> None,
            project_name |-> None, queries |-> 1]
      ELSE LET shot_details == sg.Shot[shot_id]
               acc == AddTasks(TasksOf("Shot", shot_id), 1, [assigned_users |-> <<>>, queries |-> 2])
           IN  [found |-> TRUE, assigned_users |-> acc.assigned_users,
                shot_name |-> Get(shot_details, "code", "Unknown Shot"),
                sequence_name |-> Get(shot_details, "sequence", "Unknown Sequence"),
                project_name |-> Get(shot_details, "project", "Unknown Project"),
                queries |-> acc.queries]

\* get_shotgrid_user_email
get_shotgrid_user_email(user_id) ==
    IF user_id \in DOMAIN sg.HumanUser /\ "email" \in DOMAIN sg.HumanUser[user_id]
      THEN sg.HumanUser[user_id].email
      ELSE None

-----------------------------------------------------------------------------
(* Handlers.  A handler gives [status, body, st]: the response it returns  *)
(* and the effects of its run; with st.raised an exception left it and the *)
(* response is the one of webhook's except clause.                         *)

Return(status, body, st) == [status |-> status, body |-> body, st |-> st]

\* The table of lines 287-301.
SHOT_STATUS_DESCRIPTIONS ==
    [c \in {"wtg", "rdy", "ip", "qc", "hld", "omt", "pla", "extrev", "prop", "rfd", "fin", "rev", "rc"} |->
        CASE c = "wtg" -> "Waiting to Start" [] c = "rdy" -> "Ready to Start" [] c = "ip" -> "In Progress"
          [] c = "qc" -> "Quality Control" [] c = "hld" -> "On Hold" [] c = "omt" -> "Omit"
          [] c = "pla" -> "Plate" [] c = "extrev" -> "Pending External Review"
          [] c = "prop" -> "Proposed Final" [] c = "rfd" -> "Ready for Delivery" [] c = "fin" -> "Final"
          [] c = "rev" -> "Pending Review" [] c = "rc" -> "Requires Changes"]

\* The table of lines 470-484.
ASSET_STATUS_DESCRIPTIONS ==
    [c \in {"wtg", "rdy", "ip", "hld", "omt", "ia", "rev", "nupt", "rc", "lib", "prop", "qc", "fin"} |->
        CASE c = "wtg" -> "Waiting to Start" [] c = "rdy" -> "Ready to Start" [] c = "ip" -> "In Progress"
          [] c = "hld" -> "On Hold" [] c = "omt" -> "Omit" [] c = "ia" -> "Internally Approved"
          [] c = "rev" -> "Pending Review" [] c = "nupt" -> "New update" [] c = "rc" -> "Requires Changes"
          [] c = "lib" -> "Library" [] c = "prop" -> "Proposed Final" [] c = "qc" -> "Quality Control"
          [] c = "fin" -> "Final"]

\* The module-level name STATUS_DESCRIPTIONS is bound twice, at line 287 and
\* again at line 470.  Both assignments run when the module is loaded, before
\* any request, so every handler reads the second binding.
STATUS_DESCRIPTIONS == ASSET_STATUS_DESCRIPTIONS

\* The message of handle_shot_event with a fixed label, instead of the code
\* itself, for a code the table does not have.
ShotStatusMessageUnknownLabel(old_value, new_value) ==
    "A shot status has been changed from '" \o Get(STATUS_DESCRIPTIONS, old_value, "Unknown")
        \o "' to '" \o Get(STATUS_DESCRIPTIONS, new_value, "Unknown") \o "'."

ShotStatusMessage(old_value, new_value) ==
    "A shot status has been changed from '" \o Get(STATUS_DESCRIPTIONS, old_value, old_value)
        \o "' to '" \o Get(STATUS_DESCRIPTIONS, new_value, new_value) \o "'."

\* "for step, users in assigned_users_by_step.items():
\*      send_message_to_assigned_users({step: users}, ...)"
RECURSIVE SendPerStep(_, _, _, _, _, _, _)
SendPerStep(assigned_users_by_step, k, shot_name, sequence_name, project_name, message_content, st) ==
    IF st.raised \/ k > Len(assigned_users_by_step) THEN st
    ELSE SendPerStep(assigned_users_by_step, k + 1, shot_name, sequence_name, project_name, message_content,
            send_message_to_assigned_users(<<assigned_users_by_step[k]>>, 1, shot_name, sequence_name,
                                           project_name, message_content, st))

handle_shot_event(event_data) ==
    LET message_content == ShotStatusMessage(event_data.old_value, event_data.new_value)
        r == get_assigned_users_from_tasks(event_data.entity_id)
        st == [NoEffects EXCEPT !.queries = r.queries,
                                !.resolved = Resolution("Shot", event_data.entity_id, r)]
    IN  IF r.assigned_users # <<>>
          THEN Return(200, "success",
                      SendPerStep(r.assigned_users, 1, r.shot_name, r.sequence_name, r.project_name,
                                  message_content, st))
          ELSE Return(404, "No assigned users found", st)

\* The two loops of handle_task_assignment_event: "for assignee in added_assignees"
\* and "for removed_assignee in removed_assignees".
RECURSIVE NotifyAssignees(_, _, _, _)
NotifyAssignees(assignees, i, message_content, st) ==
    IF st.raised \/ i > Len(assignees) THEN st
    ELSE LET user_email == get_shotgrid_user_email(assignees[i])
             st1 == [st EXCEPT !.queries = @ + 1]
             found == find_slack_user_by_email(user_email, st1)
             st2 == IF ~Truthy(user_email) THEN st1
                    ELSE IF ~found.st.raised /\ Truthy(found.value)
                           THEN send_slack_message(found.value, message_content, found.st)
                           ELSE found.st
         IN  NotifyAssignees(assignees, i + 1, message_content, st2)

\* shotgrid_connection.find_one("Task", [["id", "is", entity_id]], ...)
TasksWithId(id) == SelectSeq(sg.Task, LAMBDA t : t.id = id)

NoEntity == [type |-> None, id |-> None, name |-> None]

handle_task_assignment_event(event_data) ==
    IF event_data.attribute_name # "task_assignees"
      THEN Return(200, "Not a task assignment event", NoEffects)
    ELSE IF TasksWithId(event_data.entity_id) = <<>>
      THEN Return(404, "Task details not found", [NoEffects EXCEPT !.queries = 1])
    ELSE LET task_details == TasksWithId(event_data.entity_id)[1]
             linked_shot == Get(task_details, "entity", NoEntity)
             step_name == Get(task_details, "step", "Unknown Step")
         IN  IF linked_shot # NoEntity /\ linked_shot.type = "Shot"
               THEN IF linked_shot.id \notin DOMAIN sg.Shot
                      \* shot_details is None and shot_details.get raises AttributeError
                      THEN Return(200, "success", [NoEffects EXCEPT !.queries = 2, !.raised = TRUE])
                      ELSE LET shot_details == sg.Shot[linked_shot.id]
                               prefix == ContextPrefix(Get(shot_details, "project", "Unknown Project"),
                                                       Get(shot_details, "sequence", "Unknown Sequence"),
                                                       linked_shot.name, step_name)
                               st1 == NotifyAssignees(event_data.added, 1,
                                          prefix \o "You have been assigned to a task.",
                                          [NoEffects EXCEPT !.queries = 2])
                               st2 == NotifyAssignees(event_data.removed, 1,
                                          prefix \o "You have been removed from a task.", st1)
                           IN  Return(200, "success", st2)
               ELSE Return(200, "Not linked to a Shot", [NoEffects EXCEPT !.queries = 1])

ReplyMessage(reply_content, note_content) ==
    "A new Reply has been created:\n" \o reply_content \o "\nRelated Note: " \o note_content

ReplyMessageToAuthor(reply_content, note_content) ==
    "A new Reply has been created by you:\n" \o reply_content \o "\nRelated Note: " \o note_content

handle_reply_event(event_data) ==
    IF event_data.entity_id \notin DOMAIN sg.Reply
      THEN Return(404, "Reply details not found", [NoEffects EXCEPT !.queries = 1])
    ELSE LET reply_details == sg.Reply[event_data.entity_id]
             reply_content == Get(reply_details, "content", "No content")
             note_content == Get(reply_details, "note_content", "No associated note content")
             note_links == Get(reply_details, "note_links", <<>>)
             created_by_email == Get(reply_details, "created_by_email", "unknown")
             st0 == [NoEffects EXCEPT !.queries = 1]
             author == IF Truthy(created_by_email) THEN find_slack_user_by_email(created_by_email, st0)
                       ELSE [value |-> None, st |-> st0]
             r == get_assigned_users_from_tasks(note_links[1].id)
             st1 == [author.st EXCEPT !.queries = @ + r.queries,
                                      !.resolved = Resolution("Shot", note_links[1].id, r)]
         IN  IF author.st.raised THEN Return(500, "Error processing data", author.st)
             ELSE IF note_links # <<>> /\ note_links[1].type = "Shot"
               THEN IF r.assigned_users # <<>>
                      THEN Return(200, "success",
                                  send_message_to_assigned_users(r.assigned_users, 1, r.shot_name,
                                      r.sequence_name, r.project_name,
                                      ReplyMessage(reply_content, note_content), st1))
                      ELSE Return(404, "No assigned users found for linked entity", st1)
             ELSE IF Truthy(author.value)
               THEN Return(200, "success",
                           send_slack_message(author.value, ReplyMessageToAuthor(reply_content, note_content),
                                              author.st))
             ELSE Return(404, "No users found for notification", author.st)

\* get_assigned_users_from_asset_tasks.  found = FALSE is the (None, None, None) result.
get_assigned_users_from_asset_tasks(asset_id) ==
    IF asset_id \notin DOMAIN sg.Asset
      THEN [found |-> FALSE, assigned_users |-> <<>>, asset_name |-> None, project_name |-> None, queries |-> 1]
      ELSE LET asset_details == sg.Asset[asset_id]
               acc == AddTasks(TasksOf("Asset", asset_id), 1, [assigned_users |-> <<>>, queries |-> 2])
           IN  [found |-> TRUE, assigned_users |-> acc.assigned_users,
                asset_name |-> Get(asset_details, "code", "Unknown Asset"),
                project_name |-> Get(asset_details, "project", "Unknown Project"),
                queries |-> acc.queries]

\* get_assigned_users_from_version_tasks answering (None, None, None) for a
\* Version without a linked Shot, as it does for a Version that is missing.
get_assigned_users_from_version_tasks_unlinked_as_missing(version_id) ==
    IF version_id \notin DOMAIN sg.Version \/ ~Truthy(Get(sg.Version[version_id], "sg_shot", None))
      THEN [found |-> FALSE, assigned_users |-> <<>>, version_name |-> None, project_name |-> None, queries |-> 1]
      ELSE LET version_details == sg.Version[version_id]
               r == get_assigned_users_from_tasks(Get(version_details, "sg_shot", None))
           IN  [found |-> TRUE, assigned_users |-> r.assigned_users,
                version_name |-> Get(version_details, "code", "Unknown Version"),
                project_name |-> r.project_name, queries |-> 1 + r.queries]

\* get_assigned_users_from_version_tasks.  The value read from the version's
\* "sg_shot.Shot.code" field is passed on as the id of the Shot to resolve.
get_assigned_users_from_version_tasks(version_id) ==
    IF version_id \notin DOMAIN sg.Version
      THEN [found |-> FALSE, assigned_users |-> <<>>, version_name |-> None, project_name |-> None, queries |-> 1]
      ELSE LET version_details == sg.Version[version_id]
               version_name == Get(version_details, "code", "Unknown Version")
               project_name == Get(version_details, "project", "Unknown Project")
               shot_id == Get(version_details, "sg_shot", None)
               r == get_assigned_users_from_tasks(shot_id)
           IN  IF ~Truthy(shot_id)
                 THEN [found |-> TRUE, assigned_users |-> <<>>, version_name |-> version_name,
                       project_name |-> project_name, queries |-> 1]
                 \* line 171 rebinds project_name to the one the Shot resolution returned
                 ELSE [found |-> TRUE, assigned_users |-> r.assigned_users, version_name |-> version_name,
                       project_name |-> r.project_name, queries |-> 1 + r.queries]

\* get_attachments_ids_from_note_id
get_attachments_ids_from_note_id(note_id) ==
    IF note_id \notin DOMAIN sg.Note \/ "attachments" \notin DOMAIN sg.Note[note_id]
      THEN <<>>
      ELSE sg.Note[note_id].attachments

\* get_file_url_from_attachment_id
get_file_url_from_attachment_id(attachment_id) ==
    IF attachment_id \in DOMAIN sg.Attachment /\ "this_file" \in DOMAIN sg.Attachment[attachment_id]
      THEN sg.Attachment[attachment_id].this_file.url
      ELSE ""

\* The loop over attachment_ids without its "break": every attachment is
\* looked up and the url of the last one that has a file is kept.
RECURSIVE LastFileUrl(_, _)
LastFileUrl(attachment_ids, i) ==
    IF i > Len(attachment_ids) THEN [url |-> "", queries |-> i - 1]
    ELSE LET rest == LastFileUrl(attachment_ids, i + 1)
         IN  IF Truthy(rest.url) \/ ~Truthy(get_file_url_from_attachment_id(attachment_ids[i]))
               THEN rest
               ELSE [url |-> get_file_url_from_attachment_id(attachment_ids[i]), queries |-> rest.queries]

\* "for attachment_id in attachment_ids: ... break": the url found and the
\* number of Attachment queries made.
RECURSIVE FirstFileUrl(_, _)
FirstFileUrl(attachment_ids, i) ==
    IF i > Len(attachment_ids) THEN [url |-> "", queries |-> i - 1]
    ELSE IF Truthy(get_file_url_from_attachment_id(attachment_ids[i]))
      THEN [url |-> get_file_url_from_attachment_id(attachment_ids[i]), queries |-> i]
      ELSE FirstFileUrl(attachment_ids, i + 1)

NoteMessage(created_by_name, note_content, annotated_frame_url) ==
    created_by_name \o " added a note:\n" \o note_content
        \o (IF Truthy(annotated_frame_url) THEN "\nAnnotated Frame: " \o annotated_frame_url ELSE "")

\* The last entry of note_links taken where line 352 takes the first.
linked_entity_last(note_links) == note_links[Len(note_links)]

\* "linked_entity = note_links[0]"
linked_entity(note_links) == note_links[1]

handle_note_event(event_data) ==
    IF event_data.entity_id \notin DOMAIN sg.Note
      THEN Return(404, "Note details not found", [NoEffects EXCEPT !.queries = 1])
    ELSE LET note_details == sg.Note[event_data.entity_id]
             note_content == Get(note_details, "content", "No content")
             note_links == Get(note_details, "note_links", <<>>)
             created_by_name == Get(note_details, "created_by_name", "unknown user")
         IN  IF note_links = <<>>
               THEN Return(404, "No linked entities found", [NoEffects EXCEPT !.queries = 1])
               ELSE LET linked_entity_type == linked_entity(note_links).type
                        linked_entity_id == linked_entity(note_links).id
                        file == FirstFileUrl(get_attachments_ids_from_note_id(event_data.entity_id), 1)
                        message_content == NoteMessage(created_by_name, note_content, file.url)
                        q == 2 + file.queries
                        shot == get_assigned_users_from_tasks(linked_entity_id)
                        asset == get_assigned_users_from_asset_tasks(linked_entity_id)
                        version == get_assigned_users_from_version_tasks(linked_entity_id)
                    IN  CASE linked_entity_type = "Shot" ->
                               IF shot.assigned_users # <<>>
                                 THEN Return(200, "success",
                                             SendPerStep(shot.assigned_users, 1, shot.shot_name,
                                                 shot.sequence_name, shot.project_name, message_content,
                                                 [NoEffects EXCEPT !.queries = q + shot.queries, !.resolved = Resolution("Shot", linked_entity_id, shot)]))
                                 ELSE Return(404, "No assigned users found for linked Shot",
                                             [NoEffects EXCEPT !.queries = q + shot.queries, !.resolved = Resolution("Shot", linked_entity_id, shot)])
                          [] linked_entity_type = "Asset" ->
                               IF asset.assigned_users # <<>>
                                 THEN Return(200, "success",
                                             SendPerStep(asset.assigned_users, 1, asset.asset_name, "N/A",
                                                 asset.project_name, message_content,
                                                 [NoEffects EXCEPT !.queries = q + asset.queries, !.resolved = Resolution("Asset", linked_entity_id, asset)]))
                                 ELSE Return(404, "No assigned users found for linked Asset",
                                             [NoEffects EXCEPT !.queries = q + asset.queries, !.resolved = Resolution("Asset", linked_entity_id, asset)])
                          [] linked_entity_type \in {"Version", "Note, Shotgun_Note_Change", "Playlist"} ->
                               IF version.assigned_users # <<>>
                                 THEN Return(200, "success",
                                             SendPerStep(version.assigned_users, 1, version.version_name, "N/A",
                                                 version.project_name, message_content,
                                                 [NoEffects EXCEPT !.queries = q + version.queries, !.resolved = Resolution("Version", linked_entity_id, version)]))
                                 ELSE Return(404, "No assigned users found for linked Version",
                                             [NoEffects EXCEPT !.queries = q + version.queries, !.resolved = Resolution("Version", linked_entity_id, version)])
                          [] OTHER -> Return(400, "Unsupported linked entity type",
                                             [NoEffects EXCEPT !.queries = q])

-----------------------------------------------------------------------------
(* webhook                                                                 *)

\* The chain of "if" tests of lines 266-275: the handler an envelope goes to.
RouteByTriple(entity_type, event_type, operation) ==
    CASE entity_type = "Shot" -> "handle_shot_event"
      [] entity_type = "Note" /\ event_type = "Shotgun_Note_New" /\ operation = "create" -> "handle_note_event"
      [] entity_type = "Reply" /\ event_type = "Shotgun_Reply_New" /\ operation = "create" -> "handle_reply_event"
      [] entity_type = "Task" /\ event_type = "Shotgun_Task_Change" /\ operation = "update" ->
            "handle_task_assignment_event"
      [] OTHER -> "unsupported"
\* The chain with the operation test of the Note row left out.
RouteIgnoringOperation(entity_type, event_type, operation) ==
    IF entity_type = "Note" /\ event_type = "Shotgun_Note_New" THEN "handle_note_event"
    ELSE RouteByTriple(entity_type, event_type, operation)
Route(entity_type, event_type, operation) == RouteByTriple(entity_type, event_type, operation)

\* shotgrid_connection.find_one raising (the connection to ShotGrid is lost):
\* the first query of the handler raises.  Every handler starts with a query,
\* except handle_task_assignment_event for another attribute than
\* task_assignees, which returns before its first query.
FirstQueryRaises(handler, event_data) ==
    /\ sg.raises
    /\ \/ handler \in {"handle_shot_event", "handle_note_event", "handle_reply_event"}
       \/ handler = "handle_task_assignment_event" /\ event_data.attribute_name = "task_assignees"

\* The handler's own result passed on although an exception is propagating.
NotCaught(r) == r

\* "except Exception as e: ... return 'Error processing data', 500" (lines 277-279)
Caught(r) == IF r.st.raised THEN Return(500, "Error processing data", r.st) ELSE r

\* webhook: the response and the effects of one POST whose JSON body is
\* {"data": event_data}; json_empty is "not request.json".
webhook(json_empty, event_data) ==
    IF json_empty THEN Return(400, "Invalid data format", NoEffects)
    ELSE LET handler == Route(event_data.entity_type, event_data.event_type, event_data.operation)
             r == CASE FirstQueryRaises(handler, event_data) ->
                            Return(200, "success", [NoEffects EXCEPT !.queries = 1, !.raised = TRUE])
                    [] handler = "handle_shot_event" -> handle_shot_event(event_data)
                    [] handler = "handle_note_event" -> handle_note_event(event_data)
                    [] handler = "handle_reply_event" -> handle_reply_event(event_data)
                    [] handler = "handle_task_assignment_event" -> handle_task_assignment_event(event_data)
                    [] OTHER -> Return(400, "Entity type or event not supported", NoEffects)
         IN  Caught(r)

\* One request, from the POST to its response.
Request(json_empty, event_data) ==
    LET r == webhook(json_empty, event_data)
    IN  /\ event' = [event_data EXCEPT !.json_empty = json_empty]
        /\ response' = [status |-> r.status, body |-> r.body]
        /\ sent' = r.st.sent
        /\ lookups' = r.st.lookups
        /\ queries' = r.st.queries
        /\ resolved' = r.st.resolved
        /\ UNCHANGED <<sg, slack, throttlerVars>>

-----------------------------------------------------------------------------
(* The envelopes and the ShotGrid and Slack states of the model            *)

\* event_data; a key the JSON lacks reads as None, a missing added/removed
\* list as [].
Envelope(entity_type, entity_id, event_type, operation, attribute_name, old_value, new_value, added, removed) ==
    [json_empty |-> FALSE, entity_type |-> entity_type, entity_id |-> entity_id, event_type |-> event_type,
     operation |-> operation, attribute_name |-> attribute_name, old_value |-> old_value,
     new_value |-> new_value, added |-> added, removed |-> removed]

NoEnvelope == Envelope(None, None, None, None, None, None, None, <<>>, <<>>)

ShotEnvelopes ==
    { Envelope("Shot", id, "Shotgun_Shot_Change", "update", "sg_status_list", v[1], v[2], <<>>, <<>>) :
        id \in {"20", "21", None}, v \in {<<"pla", "fin">>, <<"ip", "zzz">>} }
    \cup { Envelope("Shot", "20", None, None, "sg_status_list", "ip", "fin", <<>>, <<>>) }

TaskEnvelopes ==
    { Envelope("Task", id, "Shotgun_Task_Change", "update", "task_assignees", None, None, c[1], c[2]) :
        id \in {"1", "3"},
        c \in {<< <<"7">>, <<>> >>, << <<"7", "8">>, <<>> >>, << <<"8">>, <<"7">> >>} }
    \cup { Envelope("Task", "1", "Shotgun_Task_Change", "update", "sg_status_list", "ip", "fin", <<>>, <<>>) }

ReplyEnvelopes ==
    { Envelope("Reply", id, "Shotgun_Reply_New", "create", None, None, None, <<>>, <<>>) : id \in {"40", "41"} }

NoteEnvelopes ==
    { Envelope("Note", id, "Shotgun_Note_New", "create", None, None, None, <<>>, <<>>) : id \in {"60", "61", "62", None} }

\* Envelopes of every entity type but Shot, with event types and operations
\* of their own row, of another row and missing.
OtherEnvelopes ==
    { Envelope(ty, "30", eo[1], eo[2], None, None, None, <<>>, <<>>) :
        ty \in {"Asset", "Note", "Reply", "Task", None},
        eo \in {<<"Shotgun_Note_New", "create">>, <<"Shotgun_Note_New", "update">>,
                <<"Shotgun_Reply_New", "create">>, <<"Shotgun_Task_Change", "update">>,
                <<"Shotgun_Task_Change", None>>, <<None, "create">>} }

ShotRequest == \E e \in ShotEnvelopes : Request(FALSE, e)
NoteRequest == \E e \in NoteEnvelopes : Request(FALSE, e)
ReplyRequest == \E e \in ReplyEnvelopes : Request(FALSE, e)
TaskRequest == \E e \in TaskEnvelopes : Request(FALSE, e)
OtherRequest == \E e \in OtherEnvelopes : Request(FALSE, e)
EmptyRequest == Request(TRUE, NoEnvelope)

UserIds == {"7", "8"}
EmailOf == [u \in UserIds |-> IF u = "7" THEN "ann@nfa.nl" ELSE "bob@nfa.nl"]
SlackIdOf == [u \in UserIds |-> IF u = "7" THEN "U07" ELSE "U08"]
Emails == {EmailOf[u] : u \in UserIds}
SlackIds == {SlackIdOf[u] : u \in UserIds}

\* HumanUser tables: both users, or user 8 deleted.
HumanUsers(ids) == [u \in ids |-> [email |-> EmailOf[u]]]
HumanUserTables == {HumanUsers(UserIds), HumanUsers({"7"})}

ShotTable == [id \in {"20"} |-> [code |-> "SH020", sequence |-> "SQ010", project |-> "Atlas"]]
AssetTable == [id \in {"30"} |-> [code |-> "Robot", project |-> "Atlas"]]
VersionTable ==
    [id \in {"50", "51"} |->
        IF id = "50" THEN [code |-> "v001", project |-> "Atlas", sg_shot |-> "SH020"]
                     ELSE [code |-> "v002", project |-> "Atlas", sg_shot |-> None]]
AttachmentTable ==
    [id \in {"90", "91", "94"} |->
        CASE id = "90" -> [name |-> "notes.txt"]
          [] id = "91" -> [name |-> "frame.png", this_file |-> [url |-> "https://sg/frame.png"]]
          [] id = "94" -> [name |-> "paint.png", this_file |-> [url |-> "https://sg/paint.png"]]]

Shot20 == [type |-> "Shot", id |-> "20", name |-> "SH020"]
Shot21 == [type |-> "Shot", id |-> "21", name |-> "SH021"]
Asset30 == [type |-> "Asset", id |-> "30", name |-> "Robot"]
Asset31 == [type |-> "Asset", id |-> "31", name |-> "Crate"]
Version50 == [type |-> "Version", id |-> "50", name |-> "v001"]
Version51 == [type |-> "Version", id |-> "51", name |-> "v002"]
Version52 == [type |-> "Version", id |-> "52", name |-> "v003"]

Steps == {"anim", "comp"}
AssigneeLists == {<<>>, <<"7">>, <<"7", "8">>}

\* What one task of the Task table is: its step and its task_assignees.
TaskAssignments ==
    { a \in [step : Steps, task_assignees : AssigneeLists] :
        \/ a.step = "anim" /\ a.task_assignees # <<>>
        \/ a.step = "comp" /\ a.task_assignees # <<"7", "8">> }

\* The Task table: at most MaxTasks tasks, with ids "1", "2", ...
MaxTasks == 2
TaskId(i) == CASE i = 1 -> "1" [] i = 2 -> "2" [] i = 3 -> "3" [] OTHER -> "4"
TaskTables(entities) ==
    UNION { { [i \in 1..n |-> [id |-> TaskId(i), entity |-> f[i][1].entity, step |-> f[i][2].step,
                               task_assignees |-> f[i][2].task_assignees]] :
                f \in [1..n -> [entity : entities] \X TaskAssignments] } :
            n \in 0..MaxTasks }

ReplyTable(note_links) ==
    [id \in {"40"} |-> [content |-> "Done.", note_content |-> "Fix the roto.", note_links |-> note_links,
                        created_by_email |-> EmailOf["7"]]]
\* Note 60 has the given links; note 62 is the same note with only the first
\* of them.
NoteTable(note_links, attachments) ==
    [id \in {"60", "62"} |->
        [content |-> "Fix the roto.",
         note_links |-> IF id = "60" \/ note_links = <<>> THEN note_links ELSE <<note_links[1]>>,
         created_by_email |-> EmailOf["7"], created_by_name |-> "Ann",
         attachments |-> attachments]]

\* How Slack answers for one user: the lookup gives the id and the post
\* succeeds, is refused (SlackApiError) or fails with another exception; or
\* the lookup itself fails, with SlackApiError or with another exception.
SlackBehaviours == {<<"id", "ok">>, <<"id", "SlackApiError">>, <<"id", "Exception">>,
                    <<"SlackApiError", "ok">>, <<"Exception", "ok">>}
Slack(b) ==
    [users |-> [e \in Emails |-> LET u == CHOOSE u \in UserIds : EmailOf[u] = e
                                 IN  IF b[u][1] = "id" THEN SlackIdOf[u] ELSE b[u][1]],
     post |-> [c \in SlackIds |-> LET u == CHOOSE u \in UserIds : SlackIdOf[u] = c IN b[u][2]]]
SlackUp == Slack([u \in UserIds |-> <<"id", "ok">>])
\* Slack answers in each way for user 7 and serves user 8.
SlackStatesOfAuthor == {Slack([u \in UserIds |-> IF u = "7" THEN b ELSE <<"id", "ok">>]) : b \in SlackBehaviours}

ShotGrid(HumanUser, Task, note_links, attachments, reply_links) ==
    [HumanUser |-> HumanUser, Shot |-> ShotTable, Asset |-> AssetTable, Version |-> VersionTable,
     Attachment |-> AttachmentTable, Task |-> Task, Note |-> NoteTable(note_links, attachments),
     Reply |-> ReplyTable(reply_links), raises |-> FALSE]

\* Fan-out: every Task table on Shot 20, with Slack answering in each way
\* for user 7.
FanOutScenarios ==
    { [sg |-> ShotGrid(HumanUsers(UserIds), t, <<Shot20>>, <<>>, <<Shot20>>), slack |-> s] :
        t \in TaskTables({Shot20}), s \in SlackStatesOfAuthor }

\* Linkage: one task per user, linked to Shot 20, to the missing Shot 21, to
\* Asset 30 or to nothing, and user 8 deleted or not.
LinkedTasks(e1, e2) ==
    << [id |-> "1", entity |-> e1, step |-> "anim", task_assignees |-> <<"7">>],
       [id |-> "2", entity |-> e2, step |-> "comp", task_assignees |-> <<"8">>] >>
LinkScenarios ==
    { [sg |-> ShotGrid(h, LinkedTasks(e1, e2), <<e2>>, <<>>, <<e2>>), slack |-> SlackUp] :
        h \in HumanUserTables, e1 \in {Shot20, Shot21, Asset30, NoEntity}, e2 \in {Shot20, Asset30} }

\* Notes and replies linked to each kind of entity, by an author for whom
\* Slack answers in each way.
NoteLinks ==
    {<<>>, <<Shot20>>, <<Shot21>>, <<Asset30>>, <<Asset31>>, <<Version50>>, <<Version51>>, <<Version52>>,
     <<Asset30, Shot20>>, <<[type |-> "Playlist", id |-> "70", name |-> "dailies"], Shot20>>,
     <<[type |-> "Sequence", id |-> "80", name |-> "SQ010"], Shot20>>}
AuthorScenarios ==
    { [sg |-> ShotGrid(HumanUsers(UserIds), LinkedTasks(Shot20, Asset30), l, <<>>, l), slack |-> s] :
        l \in NoteLinks, s \in SlackStatesOfAuthor }

\* Notes with attachments.
AttachmentScenarios ==
    { [sg |-> ShotGrid(HumanUsers(UserIds), LinkedTasks(Shot20, Asset30), <<Shot20>>, a, <<Shot20>>),
       slack |-> SlackUp] :
        a \in {<<"90">>, <<"91">>, <<"90", "91">>, <<"91", "90">>, <<"92">>,
                <<"94", "91">>, <<"92", "90", "91", "94">>} }

\* ShotGrid unreachable: every query raises.
FaultScenarios ==
    { [sg |-> [ShotGrid(HumanUsers(UserIds), LinkedTasks(Shot20, Asset30), <<Shot20>>, <<>>, <<Shot20>>)
                  EXCEPT !.raises = TRUE],
       slack |-> SlackUp] }

\* Shot 20 with fields that ShotGrid returns as null: a Shot that is in no
\* Sequence, and a Shot with neither code, Sequence nor Project.
NullFieldShots ==
    { [code |-> "SH020", sequence |-> None, project |-> "Atlas"],
      [code |-> None, sequence |-> None, project |-> None] }
NullFieldScenarios ==
    { [sg |-> [ShotGrid(HumanUsers(UserIds), LinkedTasks(Shot20, Asset30), <<Shot20>>, <<>>, <<Shot20>>)
                  EXCEPT !.Shot = [id \in {"20"} |-> shot]],
       slack |-> SlackUp] : shot \in NullFieldShots }

Scenarios ==
    FanOutScenarios \cup LinkScenarios \cup AuthorScenarios \cup AttachmentScenarios \cup FaultScenarios
        \cup NullFieldScenarios

Init ==
    /\ InitThrottler
    /\ \E sc \in Scenarios : sg = sc.sg /\ slack = sc.slack
    /\ event = [NoEnvelope EXCEPT !.json_empty = TRUE]
    /\ response = [status |-> 0, body |-> ""]
    /\ sent = <<>>
    /\ lookups = <<>>
    /\ queries = 0
    /\ resolved = NoResolution

Next == ShotRequest \/ NoteRequest \/ ReplyRequest \/ TaskRequest \/ OtherRequest \/ EmptyRequest

Spec == Init /\ [][Next]_vars

\* The Throttler on its own, called at arbitrary times.
InitThrottlerOnly ==
    /\ InitThrottler
    /\ sg = ShotGrid(HumanUsers(UserIds), <<>>, <<>>, <<>>, <<>>)
    /\ slack = SlackUp
    /\ event = [NoEnvelope EXCEPT !.json_empty = TRUE]
    /\ response = [status |-> 0, body |-> ""]
    /\ sent = <<>>
    /\ lookups = <<>>
    /\ queries = 0
    /\ resolved = NoResolution

NextThrottler == Throttle \/ Tick

SpecThrottler == InitThrottlerOnly /\ [][NextThrottler]_vars

\* The Throttler shared by the workers, each calling throttle() at arbitrary
\* times, one statement at a time.
NextWorkers ==
    \/ \E w \in Workers : Acquire(w)
    \/ \E w \in Workers : ReadTime(w)
    \/ \E w \in Workers : CheckWindow(w)
    \/ \E w \in Workers : TestCalls(w)
    \/ \E w \in Workers : Increment(w)
    \/ \E w \in Workers : Refuse(w)
    \/ \E w \in Workers : Release(w)
    \/ Tick

SpecWorkers == InitThrottlerOnly /\ [][NextWorkers]_vars

TypeOK ==
    /\ now \in 0..MaxTime /\ calls \in 0..max_calls /\ last_reset \in 0..MaxTime
    /\ response.status \in {0, 200, 400, 404, 500}

-----------------------------------------------------------------------------
(* Properties                                                              *)

\* A request has been answered by one of the handlers (not rejected for an
\* empty body), with ShotGrid answering its queries.
Answered == response.status # 0 /\ ~event.json_empty /\ ~sg.raises

\* A Slack call of the last request raised something else than SlackApiError.
SlackFaulted ==
    \/ \E i \in DOMAIN lookups : users_lookupByEmail(lookups[i]) = "Exception"
    \/ \E i \in DOMAIN sent : sent[i].outcome = "Exception"

\* The chat identity of an email resolves.
Resolves(email) == users_lookupByEmail(email) \notin {"SlackApiError", "Exception"}

\* The messages of the last request that went to a channel.
SentTo(channel) == {i \in DOMAIN sent : sent[i].channel = channel}

\* The (step, email) entries of a RecipientSet, flattened in order.
RECURSIVE Entries(_)
Entries(d) ==
    IF d = <<>> THEN <<>>
    ELSE [i \in DOMAIN d[1].value |-> [step |-> d[1].key, email |-> d[1].value[i]]] \o Entries(Tail(d))

\* C1: among the throttle() calls that returned True, at most max_calls have
\* their time in any interval [t, t + period).
C1_AtMostMaxCallsPerPeriod ==
    \A t \in 0..MaxTime :
        Cardinality({i \in DOMAIN admitted : t <= admitted[i] /\ admitted[i] < t + period}) <= max_calls

\* C2: every chat_postMessage call of a request is preceded by its own
\* throttle() call that returned True, so there are at least as many
\* admissions as messages sent.
C2_EverySendAdmitted == Len(sent) <= Len(admitted)

\* C3: after a Shot status-change event on a Shot with assigned tasks, when
\* Slack answers every call, each distinct assignee email whose chat identity
\* resolves has got exactly one message, and its body carries the Shot labels
\* of the old and of the new status (the raw code when the Shot table has none).
\* Stated for the status codes that the two status tables describe alike.
ShotEventAnswered == Answered /\ event.entity_type = "Shot" /\ event.entity_id \in DOMAIN sg.Shot
SameInBothTables(code) ==
    Get(SHOT_STATUS_DESCRIPTIONS, code, code) = Get(ASSET_STATUS_DESCRIPTIONS, code, code)
ShotRecipients == get_assigned_users_from_tasks(event.entity_id).assigned_users
ShotLabel(code) == Get(SHOT_STATUS_DESCRIPTIONS, code, code)
C3_OneMessagePerAssignee ==
    ShotEventAnswered /\ ~SlackFaulted /\ SameInBothTables(event.old_value) /\ SameInBothTables(event.new_value) =>
        \A k \in DOMAIN Entries(ShotRecipients) :
            LET en == Entries(ShotRecipients)[k]
            IN  Resolves(en.email) =>
                  /\ Cardinality(SentTo(users_lookupByEmail(en.email))) = 1
                  /\ \A i \in SentTo(users_lookupByEmail(en.email)) :
                        \E step \in Steps :
                            sent[i].text =
                                ContextPrefix(sg.Shot[event.entity_id].project, sg.Shot[event.entity_id].sequence,
                                              sg.Shot[event.entity_id].code, step)
                                \o "A shot status has been changed from '" \o ShotLabel(event.old_value)
                                \o "' to '" \o ShotLabel(event.new_value) \o "'."

\* C4: after the fan-out of a Shot event, whatever lookups missed and sends
\* failed, there is exactly one send for each entry of the RecipientSet whose
\* chat identity resolves: none is skipped because another failed, none is sent twice.
ResolvingEntries(d) == {k \in DOMAIN Entries(d) : Resolves(Entries(d)[k].email)}
C4_FailureNeverAbortsSiblings ==
    ShotEventAnswered => Len(sent) = Cardinality(ResolvingEntries(ShotRecipients))

\* C5: a request is answered 200 only if one of its messages was delivered or
\* it is a Task change of another attribute than task_assignees.
Delivered == \E i \in DOMAIN sent : sent[i].outcome = "ok"
NotAnAssignmentChange ==
    /\ event.entity_type = "Task" /\ event.event_type = "Shotgun_Task_Change" /\ event.operation = "update"
    /\ event.attribute_name # "task_assignees"
C5_SuccessOnlyOnDelivery ==
    Answered /\ response.status = 200 => Delivered \/ NotAnAssignmentChange

\* C6: when the root entity of the event, the Shot of its Task or the first
\* entity linked to its Note is not in ShotGrid, and no Slack call faults,
\* the response is 404 and nothing is sent.
Handler == RouteByTriple(event.entity_type, event.event_type, event.operation)
EventTask == TasksWithId(event.entity_id)[1]
TableOf(type) ==
    CASE type = "Shot" -> sg.Shot [] type = "Asset" -> sg.Asset [] type = "Version" -> sg.Version
RootOrLinkedMissing ==
    \/ Handler = "handle_shot_event" /\ event.entity_id \notin DOMAIN sg.Shot
    \/ Handler = "handle_note_event" /\ event.entity_id \notin DOMAIN sg.Note
    \/ Handler = "handle_reply_event" /\ event.entity_id \notin DOMAIN sg.Reply
    \/ /\ Handler = "handle_task_assignment_event" /\ event.attribute_name = "task_assignees"
       /\ \/ TasksWithId(event.entity_id) = <<>>
          \/ /\ TasksWithId(event.entity_id) # <<>>
             /\ EventTask.entity.type = "Shot" /\ EventTask.entity.id \notin DOMAIN sg.Shot
    \/ /\ Handler = "handle_note_event" /\ event.entity_id \in DOMAIN sg.Note
       /\ sg.Note[event.entity_id].note_links # <<>>
       /\ sg.Note[event.entity_id].note_links[1].type \in {"Shot", "Asset", "Version"}
       /\ sg.Note[event.entity_id].note_links[1].id
             \notin DOMAIN TableOf(sg.Note[event.entity_id].note_links[1].type)
C6_MissingEntityIsNotFound ==
    Answered /\ RootOrLinkedMissing /\ ~SlackFaulted => response.status = 404 /\ sent = <<>>

\* C7: an envelope whose (entity_type, event_type, operation) is in no row of
\* the dispatch table is answered 400, with no ShotGrid query and no Slack call.
DispatchRows ==
    {<<"Note", "Shotgun_Note_New", "create">>, <<"Reply", "Shotgun_Reply_New", "create">>,
     <<"Task", "Shotgun_Task_Change", "update">>}
MatchesNoRow ==
    /\ event.entity_type # "Shot"
    /\ <<event.entity_type, event.event_type, event.operation>> \notin DispatchRows
C7_UnsupportedIsRejected ==
    Answered /\ MatchesNoRow =>
        response.status = 400 /\ queries = 0 /\ sent = <<>> /\ lookups = <<>>

\* C7 witness: an Asset envelope, and a Note envelope with the operation of
\* another row, have been answered 400.
C7_Witness ==
    /\ Answered /\ MatchesNoRow /\ response.status = 400
    /\ \/ event.entity_type = "Asset"
       \/ event.entity_type = "Note" /\ event.event_type = "Shotgun_Note_New" /\ event.operation = "update"

\* C8: an envelope that lacks entity_type, entity_id, event_type or operation
\* is answered 400, with no ShotGrid query and no Slack call.
LacksRequiredField ==
    None \in {event.entity_type, event.entity_id, event.event_type, event.operation}
C8_MissingFieldIsRejected ==
    Answered /\ LacksRequiredField =>
        response.status = 400 /\ queries = 0 /\ sent = <<>> /\ lookups = <<>>

\* C9: after a Task-assignment event on a task linked to a Shot that ShotGrid
\* has, the messages sent are one "assigned" message per added assignee and
\* one "removed" message per removed assignee whose chat identity resolves,
\* in that order, each to that identity, and the response is 200.
RECURSIVE AssignmentMessages(_, _)
AssignmentMessages(assignees, text) ==
    IF assignees = <<>> THEN <<>>
    ELSE (IF Truthy(get_shotgrid_user_email(assignees[1])) /\ Resolves(get_shotgrid_user_email(assignees[1]))
            THEN << [channel |-> users_lookupByEmail(get_shotgrid_user_email(assignees[1])), text |-> text] >>
            ELSE <<>>)
         \o AssignmentMessages(Tail(assignees), text)
AssignmentOnShot ==
    /\ Answered /\ Handler = "handle_task_assignment_event" /\ event.attribute_name = "task_assignees"
    /\ TasksWithId(event.entity_id) # <<>>
    /\ EventTask.entity.type = "Shot" /\ EventTask.entity.id \in DOMAIN sg.Shot
AssignmentContext ==
    "In " \o sg.Shot[EventTask.entity.id].project \o "|" \o sg.Shot[EventTask.entity.id].sequence \o "|"
          \o EventTask.entity.name \o "|" \o EventTask.step \o "\n"
C9_AssignmentMessages ==
    AssignmentOnShot =>
        /\ [i \in DOMAIN sent |-> [channel |-> sent[i].channel, text |-> sent[i].text]]
             = AssignmentMessages(event.added, AssignmentContext \o "You have been assigned to a task.")
                 \o AssignmentMessages(event.removed, AssignmentContext \o "You have been removed from a task.")
        /\ response.status = 200

\* C10: after a Reply event, when no Slack call faults: if the first link of
\* the reply's note is a Shot, an Asset or a Version, no message goes out
\* without the context prefix of that entity's recipients (no self-addressed
\* copy); and a self-addressed copy, when there is one, carries the body
\* "A new Reply has been created:..." that the recipients would get.
ReplyHandled == Answered /\ Handler = "handle_reply_event" /\ event.entity_id \in DOMAIN sg.Reply
EventReply == sg.Reply[event.entity_id]
ReplyHasLinkedEntity ==
    EventReply.note_links # <<>> /\ EventReply.note_links[1].type \in {"Shot", "Asset", "Version"}
ReplyBodies ==
    {"A new Reply has been created:\n" \o EventReply.content \o "\nRelated Note: " \o EventReply.note_content,
     "A new Reply has been created by you:\n" \o EventReply.content \o "\nRelated Note: "
        \o EventReply.note_content}
SelfAddressedCopies == {i \in DOMAIN sent : sent[i].text \in ReplyBodies}
C10_SelfCopyOnlyWithoutLink ==
    ReplyHandled /\ ~SlackFaulted =>
        /\ ReplyHasLinkedEntity => SelfAddressedCopies = {}
        /\ \A i \in SelfAddressedCopies :
              /\ sent[i].channel = users_lookupByEmail(EventReply.created_by_email)
              /\ sent[i].text = "A new Reply has been created:\n" \o EventReply.content
                                    \o "\nRelated Note: " \o EventReply.note_content

\* C11: after a Reply event whose reply has no note_links and whose author
\* the Slack directory does not know (the lookup of the author's email ends
\* in SlackApiError, or there is no email to look up), no message has been
\* sent and the response is 404.
AuthorUnknownToSlack ==
    \/ ~Truthy(EventReply.created_by_email)
    \/ users_lookupByEmail(EventReply.created_by_email) = "SlackApiError"
C11_NoLinkNoAuthorIsNotFound ==
    ReplyHandled /\ EventReply.note_links = <<>> /\ AuthorUnknownToSlack =>
        sent = <<>> /\ response.status = 404
C11_Witness ==
    /\ ReplyHandled /\ EventReply.note_links = <<>> /\ AuthorUnknownToSlack
    /\ lookups = <<EventReply.created_by_email>>
    /\ sent = <<>> /\ response = [status |-> 404, body |-> "No users found for notification"]

\* C12: after a Note event whose first link is a Version that exists and has
\* no linked Shot, the Version was resolved with one query to an empty
\* RecipientSet together with the version's own name and project name; that
\* result differs from the one a missing Version id gives (no RecipientSet,
\* no names) and from the one a Version whose linked Shot cannot be found
\* gives (no project name); no message has been sent and the response is the
\* 404 "No assigned users found for linked Version".
NoteHandled == Answered /\ Handler = "handle_note_event" /\ event.entity_id \in DOMAIN sg.Note
EventNote == sg.Note[event.entity_id]
FirstLink == EventNote.note_links[1]
FirstLinkIsVersionWithoutShot ==
    /\ NoteHandled /\ EventNote.note_links # <<>>
    /\ FirstLink.type = "Version" /\ FirstLink.id \in DOMAIN sg.Version
    /\ ~Truthy(Get(sg.Version[FirstLink.id], "sg_shot", None))
MissingVersionIds == {"52", "53"} \ DOMAIN sg.Version
VersionsWithMissingShot ==
    {v \in DOMAIN sg.Version : Truthy(Get(sg.Version[v], "sg_shot", None))
                                  /\ Get(sg.Version[v], "sg_shot", None) \notin DOMAIN sg.Shot}
C12_UnlinkedVersionHasNoRecipients ==
    FirstLinkIsVersionWithoutShot =>
        /\ resolved = Resolution("Version", FirstLink.id,
                          [found |-> TRUE, assigned_users |-> <<>>,
                           version_name |-> sg.Version[FirstLink.id].code,
                           project_name |-> sg.Version[FirstLink.id].project, queries |-> 1])
        /\ \A w \in MissingVersionIds :
              LET missing == get_assigned_users_from_version_tasks(w)
              IN  /\ missing.found # resolved.result.found
                  /\ missing.version_name # resolved.result.version_name
                  /\ missing.project_name # resolved.result.project_name
        /\ \A v \in VersionsWithMissingShot :
              get_assigned_users_from_version_tasks(v).project_name # resolved.result.project_name
        /\ sent = <<>>
        /\ response = [status |-> 404, body |-> "No assigned users found for linked Version"]
C12_Witness ==
    /\ FirstLinkIsVersionWithoutShot /\ MissingVersionIds # {} /\ VersionsWithMissingShot # {}
    /\ resolved.type = "Version" /\ resolved.result.found /\ resolved.result.assigned_users = <<>>
    /\ resolved.result.version_name = "v002" /\ resolved.result.project_name = "Atlas"
    /\ sent = <<>> /\ response.status = 404

\* C13: after a Note event whose first link is a Version linked to a Shot
\* that exists, the Version was resolved to the RecipientSet that resolving
\* the Shot by its id gives, with the version's name as entity name; and
\* when no Slack call faults, every assignee of the Shot's tasks whose chat
\* identity resolves has been sent a message.
FirstLinkIsVersionOfShot ==
    /\ NoteHandled /\ EventNote.note_links # <<>>
    /\ FirstLink.type = "Version" /\ FirstLink.id \in DOMAIN sg.Version
    /\ \E s \in DOMAIN sg.Shot : sg.Shot[s].code = Get(sg.Version[FirstLink.id], "sg_shot", None)
LinkedShotId == CHOOSE s \in DOMAIN sg.Shot : sg.Shot[s].code = sg.Version[FirstLink.id].sg_shot
C13_VersionResolvesAsItsShot ==
    FirstLinkIsVersionOfShot =>
        LET shot == get_assigned_users_from_tasks(LinkedShotId)
        IN  /\ resolved.type = "Version" /\ resolved.id = FirstLink.id
            /\ resolved.result.assigned_users = shot.assigned_users
            /\ resolved.result.version_name = sg.Version[FirstLink.id].code
            /\ ~SlackFaulted =>
                  \A i \in DOMAIN Entries(shot.assigned_users) :
                      Resolves(Entries(shot.assigned_users)[i].email) =>
                          SentTo(users_lookupByEmail(Entries(shot.assigned_users)[i].email)) # {}

\* C14: after a Shot event whose old and new status codes are both in the
\* Shot table (lines 287-301), every message sent carries the labels that
\* the Shot table gives to the two codes.
ShotEventHandled == ShotEventAnswered /\ Handler = "handle_shot_event"
C14_ShotLabelsFromShotTable ==
    /\ ShotEventHandled
    /\ event.old_value \in DOMAIN SHOT_STATUS_DESCRIPTIONS
    /\ event.new_value \in DOMAIN SHOT_STATUS_DESCRIPTIONS
    => \A i \in DOMAIN sent :
          \E step \in Steps :
              sent[i].text =
                  ContextPrefix(sg.Shot[event.entity_id].project, sg.Shot[event.entity_id].sequence,
                                sg.Shot[event.entity_id].code, step)
                  \o "A shot status has been changed from '" \o SHOT_STATUS_DESCRIPTIONS[event.old_value]
                  \o "' to '" \o SHOT_STATUS_DESCRIPTIONS[event.new_value] \o "'."

\* C15: after a Shot event with a status code that neither status table
\* has, every message sent carries that code itself where the label would
\* be (and the table's label for the other code, when the two tables agree
\* on it); the lookup raises nothing: unless a Slack call faulted, the
\* response is not 500.
InNoTable(code) == code \notin DOMAIN SHOT_STATUS_DESCRIPTIONS \cup DOMAIN ASSET_STATUS_DESCRIPTIONS
LabelOrRawCode(code) == IF InNoTable(code) THEN code ELSE SHOT_STATUS_DESCRIPTIONS[code]
ShotEventWithUnknownCode ==
    /\ ShotEventHandled
    /\ InNoTable(event.old_value) \/ InNoTable(event.new_value)
    /\ SameInBothTables(event.old_value) /\ SameInBothTables(event.new_value)
C15_UnknownCodePassesThrough ==
    ShotEventWithUnknownCode =>
        /\ \A i \in DOMAIN sent :
              \E step \in Steps :
                  sent[i].text =
                      ContextPrefix(sg.Shot[event.entity_id].project, sg.Shot[event.entity_id].sequence,
                                    sg.Shot[event.entity_id].code, step)
                      \o "A shot status has been changed from '" \o LabelOrRawCode(event.old_value)
                      \o "' to '" \o LabelOrRawCode(event.new_value) \o "'."
        /\ ~SlackFaulted => response.status # 500
C15_Witness ==
    /\ ShotEventWithUnknownCode /\ event.new_value = "zzz" /\ response.status = 200 /\ sent # <<>>
    /\ sent[1].text = "In Atlas|SQ010|SH020|anim\nA shot status has been changed from 'In Progress' to 'zzz'."

\* C16: a request never changes the ShotGrid state, and when two requests
\* in a row resolve the same Shot, Asset or Version, the second resolution
\* returns the RecipientSet, the names and the query count the first one
\* returned.
ResolvesSameEntityAgain ==
    resolved.type \in {"Shot", "Asset", "Version"} /\ resolved'.type = resolved.type /\ resolved'.id = resolved.id
TrueReturns == Cardinality({i \in DOMAIN returned : returned[i] = "True"})
InsideThrottle == {w \in Workers : pc[w] # "idle"}
C17_CounterCountsAdmissions ==
    /\ Cardinality(InsideThrottle) <= 1
    /\ calls <= max_calls
    /\ TrueReturns = calls
C17_Witness ==
    /\ \E w \in Workers : pc[w] = "release" /\ current_time[w] > last_reset /\ lock = w
    /\ \E w \in Workers : pc[w] = "idle"
    /\ ret = "False" /\ calls = max_calls /\ last_reset > 0 /\ TrueReturns = max_calls

\* C18: the throttle() calls made since a window reset return True for the
\* first max_calls of them and False for every later one: of max_calls + k
\* calls, max_calls return True and k return False.
FalseReturns == Cardinality({i \in DOMAIN returned : returned[i] = "False"})
C18_FirstMaxCallsAdmitted ==
    /\ \A i \in DOMAIN returned : returned[i] = (IF i <= max_calls THEN "True" ELSE "False")
    /\ Len(returned) >= max_calls => TrueReturns = max_calls /\ FalseReturns = Len(returned) - max_calls
    /\ calls = TrueReturns
C18_Witness ==
    /\ Len(returned) = max_calls + MaxRejected /\ ret = "False"
    /\ TrueReturns = max_calls /\ FalseReturns = MaxRejected
    /\ ~WindowExpired(now, last_reset)

\* C19: every request ends with one status out of 200, 400, 404 and 500, and
\* a request during which something raised (a ShotGrid query, a Slack call
\* with another exception than SlackApiError, or the dereference of the
\* missing Shot of a Task) is answered 500 "Error processing data".
ShotGridFaulted ==
    /\ ~event.json_empty /\ sg.raises
    /\ \/ Handler \in {"handle_shot_event", "handle_note_event", "handle_reply_event"}
       \/ Handler = "handle_task_assignment_event" /\ event.attribute_name = "task_assignees"
DereferencedMissingShot ==
    /\ ~event.json_empty /\ ~sg.raises
    /\ Handler = "handle_task_assignment_event" /\ event.attribute_name = "task_assignees"
    /\ TasksWithId(event.entity_id) # <<>>
    /\ EventTask.entity # NoEntity /\ EventTask.entity.type = "Shot" /\ EventTask.entity.id \notin DOMAIN sg.Shot
Faulted == ShotGridFaulted \/ SlackFaulted \/ DereferencedMissingShot
C19_FaultsAnswered500 ==
    [][/\ response'.status \in {200, 400, 404, 500}
       /\ Faulted' => response' = [status |-> 500, body |-> "Error processing data"]]_vars
C19_Witness ==
    /\ ShotGridFaulted /\ queries = 1 /\ sent = <<>>
    /\ response = [status |-> 500, body |-> "Error processing data"]

\* C20: when two Note events in a row are for notes that differ at most in
\* their links after the first, the second is answered as the first was:
\* same messages to the same channels, same resolved entity and recipients,
\* same response.  And a Note event whose note has a first link of another
\* type than the handler supports is answered 400 with no entity resolved
\* and no message sent, whatever links follow.
SupportedLinkTypes == {"Shot", "Asset", "Version", "Note, Shotgun_Note_Change", "Playlist"}
SameUpToLaterLinks(n, m) ==
    /\ [n EXCEPT !.note_links = <<>>] = [m EXCEPT !.note_links = <<>>]
    /\ n.note_links # <<>> /\ m.note_links # <<>>
    /\ n.note_links[1] = m.note_links[1]
C20_OnlyFirstLinkCounts ==
    [][/\ (NoteHandled /\ NoteHandled' /\ SameUpToLaterLinks(EventNote, EventNote'))
            => sent' = sent /\ resolved' = resolved /\ response' = response /\ lookups' = lookups
       /\ (NoteHandled' /\ EventNote'.note_links # <<>> /\ FirstLink'.type \notin SupportedLinkTypes)
            => /\ response' = [status |-> 400, body |-> "Unsupported linked entity type"]
               /\ sent' = <<>> /\ resolved' = NoResolution]_vars
C20_Witness ==
    /\ NoteHandled /\ Len(EventNote.note_links) > 1
    /\ \E m \in DOMAIN sg.Note : m # event.entity_id /\ SameUpToLaterLinks(EventNote, sg.Note[m])
    /\ resolved.type = FirstLink.type /\ resolved.id = FirstLink.id
    /\ EventNote.note_links[2].type = "Shot" /\ FirstLink.type = "Asset"
    /\ sent # <<>> /\ response.status = 200

\* C21: after a Note event on a note with links, every message sent is the
\* context prefix followed by "<author name> added a note:\n<content>" and,
\* exactly when some attachment of the note has a file url, by
\* "\nAnnotated Frame: " and the url of the first such attachment in listed
\* order; the attachments looked up are those up to and including that one
\* (all of them when none has a file url).
AttachmentIds == Get(EventNote, "attachments", <<>>)
WithFileUrl == {i \in DOMAIN AttachmentIds : get_file_url_from_attachment_id(AttachmentIds[i]) # ""}
FirstWithFileUrl == CHOOSE i \in WithFileUrl : \A j \in WithFileUrl : i <= j
ExpectedNoteBody ==
    EventNote.created_by_name \o " added a note:\n" \o EventNote.content
        \o (IF WithFileUrl = {} THEN ""
            ELSE "\nAnnotated Frame: " \o get_file_url_from_attachment_id(AttachmentIds[FirstWithFileUrl]))
AttachmentsLookedUp == IF WithFileUrl = {} THEN Len(AttachmentIds) ELSE FirstWithFileUrl
ResolvedPrefix(step) ==
    CASE resolved.type = "Shot" ->
            ContextPrefix(resolved.result.project_name, resolved.result.sequence_name,
                          resolved.result.shot_name, step)
      [] resolved.type = "Asset" ->
            ContextPrefix(resolved.result.project_name, "N/A", resolved.result.asset_name, step)
      [] OTHER -> ContextPrefix(resolved.result.project_name, "N/A", resolved.result.version_name, step)
C21_NoteBodyAndFirstAttachment ==
    NoteHandled /\ EventNote.note_links # <<>> =>
        /\ \A i \in DOMAIN sent :
              \E step \in Steps : sent[i].text = ResolvedPrefix(step) \o ExpectedNoteBody
        /\ queries = 2 + AttachmentsLookedUp
                       + (IF resolved = NoResolution THEN 0 ELSE resolved.result.queries)
C21_Witness ==
    /\ NoteHandled /\ AttachmentIds = <<"92", "90", "91", "94">>
    /\ WithFileUrl = {3, 4} /\ AttachmentsLookedUp = 3
    /\ response.status = 200 /\ sent # <<>>
    /\ sent[1].text = "In Atlas|SQ010|SH020|anim\nAnn added a note:\nFix the roto.\nAnnotated Frame: https://sg/frame.png"

\* C22: in every message sent after a Shot event or after a task-assignment
\* event on a Shot's task, the project, sequence and entity name of the
\* prefix are the values of the Shot's fields, or the defaults
\* "Unknown Project", "Unknown Sequence" and "Unknown Shot" where a field is
\* missing or null; the step is one of the tasks' steps; and unless a Slack
\* call faulted the response is not 500.
FieldOrDefault(rec, key, default) ==
    IF key \in DOMAIN rec /\ rec[key] # None THEN rec[key] ELSE default
ContextShot == IF Handler = "handle_shot_event" THEN sg.Shot[event.entity_id] ELSE sg.Shot[EventTask.entity.id]
ContextEntityName ==
    IF Handler = "handle_shot_event" THEN FieldOrDefault(ContextShot, "code", "Unknown Shot")
    ELSE EventTask.entity.name
ContextBodies ==
    {ShotStatusMessage(event.old_value, event.new_value),
     "You have been assigned to a task.", "You have been removed from a task."}
C22_ContextFieldsNeverNull ==
    ShotEventHandled \/ AssignmentOnShot =>
        /\ \A i \in DOMAIN sent :
              \E step \in Steps, body \in ContextBodies :
                  sent[i].text =
                      ContextPrefix(FieldOrDefault(ContextShot, "project", "Unknown Project"),
                                    FieldOrDefault(ContextShot, "sequence", "Unknown Sequence"),
                                    ContextEntityName, step) \o body
        /\ ~SlackFaulted => response.status # 500

====
